---- MODULE Spec2Model ----
(***************************************************************************)
(* Caller-attribution resolvers of py/caller_resolver.py:                  *)
(* resolve_caller_module and resolve_caller_filename walking a call stack. *)
(*                                                                         *)
(* Strings are sequences of one-character strings, so that str.startswith, *)
(* the `in` substring test, str.lower and pathlib's Path(...).name are     *)
(* computed character by character.  A call stack is a sequence of frames, *)
(* innermost first: stack[1] is the resolver's own frame (what             *)
(* inspect.currentframe() returns), stack[k + 1] is stack[k].f_back.       *)
(***************************************************************************)
EXTENDS Integers, Sequences, FiniteSets, TLC

VARIABLES
    stack,               \* the calling thread's frames, innermost first
    argv,                \* sys.argv
    pc,                  \* "idle" | "skip" | "walk" | "done"
    kind,                \* which resolver runs: "module" | "file" | "none"
    stack_start,         \* argument
    max_stack_depth,     \* argument: <<>> for None, <<n>> for the int n
    excluded_prefixes,   \* argument of resolve_caller_module
    excluded_patterns,   \* argument of resolve_caller_filename
    return_basename,     \* argument
    fallback_to_argv,    \* argument
    fallback_to_current, \* argument
    frame,               \* local: index into stack, NoFrame or Unbound
    skipped,             \* iterations of the skip loop completed
    inspected,           \* local
    seen_files,          \* local of resolve_caller_filename
    result,              \* the value returned
    evaluated,           \* history: stack indices tested against the exclusion set
    accepted,            \* history: the stack index whose frame was returned, or NoFrame
    fault,               \* history: the stack index whose read raised, or NoFrame
    parked,              \* the call state of the thread that is not running, or NoThread
    exclude_patterns,           \* the caller's set given to CallerInfoFilter, or ArgNone
    override_exclude_patterns,  \* the caller's set given to CallerInfoFilter, or ArgNone
    filter_pc,                  \* "none" | "ready" | "resolving" | "returned"
    self_attribute_name,        \* CallerInfoFilter.attribute_name
    self_exclude_patterns,      \* CallerInfoFilter.exclude_patterns
    self_stack_offset,          \* CallerInfoFilter.stack_offset
    self_fallback_to_argv,      \* CallerInfoFilter.fallback_to_argv
    record,                     \* the log record's attributes
    filter_result,              \* <<>> until filter returns, then <<its return value>>
    lr_pc,                      \* LevelRangeFilter: "none" | "ready" | "returned"
    min_level,                  \* the min_level argument given to LevelRangeFilter
    max_level,                  \* the max_level argument given to LevelRangeFilter
    min_inclusive,              \* the min_inclusive argument given to LevelRangeFilter
    max_inclusive,              \* the max_inclusive argument given to LevelRangeFilter
    lr_min_level,               \* LevelRangeFilter.min_level
    lr_max_level,               \* LevelRangeFilter.max_level
    lr_min_comparator,          \* LevelRangeFilter._min_comparator: "le" | "lt"
    lr_max_comparator,          \* LevelRangeFilter._max_comparator: "ge" | "gt"
    lr_name,                    \* LevelRangeFilter.name
    levelno,                    \* record.levelno
    logger_name,                \* record.name
    lr_result,                  \* <<>> until filter returns, then <<its return value>>
    SYS_PLATFORM,               \* platform.system().lower()
    bin_is_dir,                 \* the environment's bin directory exists and is a directory
    python_executables,         \* the bin directory holds a file named like a Python executable
    activate_this_is_file,      \* bin/activate_this.py is a file
    run_path_ok,                \* running activate_this.py raises nothing
    lib_is_dir,                 \* the environment's lib directory exists and is a directory
    version_str_ok,             \* the environment's interpreter reports its version
    site_is_dir,                \* the environment's site-packages directory exists
    has_base_prefix,            \* hasattr(sys, "base_prefix")
    prefix_differs,             \* sys.prefix != sys.base_prefix
    has_real_prefix,            \* hasattr(sys, "real_prefix")
    import_pc,                  \* position in setup_venv's import-time code
    method,                     \* index of the activation method the loop is at
    attempts,                   \* history: the activation methods called, in order
    activated,                  \* <<>> until activate_virtualenv returns, then <<its value>>
    calls,                      \* history: the number of calls of activate_virtualenv
    exit_status                 \* <<>> while the process runs, <<n>> after sys.exit(n)

\* the state of one resolver call: its thread's stack, its arguments and its locals
call == <<stack, pc, kind, stack_start, max_stack_depth, excluded_prefixes,
          excluded_patterns, return_basename, fallback_to_argv, fallback_to_current,
          frame, skipped, inspected, seen_files, result, evaluated, accepted, fault>>

\* the caller's pattern sets, the filter and the record it is given
adapter == <<exclude_patterns, override_exclude_patterns, filter_pc, self_attribute_name,
             self_exclude_patterns, self_stack_offset, self_fallback_to_argv, record,
             filter_result>>

\* LevelRangeFilter and the record it is given
level_filter == <<lr_pc, min_level, max_level, min_inclusive, max_inclusive, lr_min_level, lr_max_level,
                  lr_min_comparator, lr_max_comparator, lr_name, levelno, logger_name,
                  lr_result>>

\* setup_venv: the platform, the file system, sys, and the import's progress
venv == <<SYS_PLATFORM, bin_is_dir, python_executables, activate_this_is_file,
          run_path_ok, lib_is_dir, version_str_ok, site_is_dir, has_base_prefix,
          prefix_differs, has_real_prefix, import_pc, method, attempts, activated,
          calls, exit_status>>

vars == <<call, argv, parked, adapter, level_filter, venv>>

args == <<kind, stack_start, max_stack_depth, excluded_prefixes, excluded_patterns,
          return_basename, fallback_to_argv, fallback_to_current>>

(***************************************************************************)
(* Bounds                                                                  *)
(***************************************************************************)
\* callers above the resolver's own frame
MaxCallers == 2

\* largest stack_start tried
MaxSkip == 3

\* largest max_stack_depth tried
MaxDepth == 1

(***************************************************************************)
(* String primitives                                                       *)
(***************************************************************************)
\* str.startswith
StartsWith(s, p) ==
    /\ Len(p) <= Len(s)
    /\ SubSeq(s, 1, Len(p)) = p

\* `p in s` for strings
Contains(s, p) ==
    \E k \in 0..(Len(s) - Len(p)) : SubSeq(s, k + 1, k + Len(p)) = p

LowerChar(c) ==
    CASE c = "V" -> "v"
      [] c = "E" -> "e"
      [] c = "N" -> "n"
      [] OTHER -> c

\* str.lower
Lower(s) == [k \in 1..Len(s) |-> LowerChar(s[k])]

\* the index of the last "/" of s at or before position n, 0 when there is none
RECURSIVE LastSlash(_, _)
LastSlash(s, n) ==
    IF n = 0 THEN 0
    ELSE IF s[n] = "/" THEN n
    ELSE LastSlash(s, n - 1)

\* the components of a POSIX path, empty and "." components dropped
RECURSIVE PathParts(_)
PathParts(s) ==
    IF s = <<>> THEN <<>>
    ELSE LET cut == LastSlash(s, Len(s))
             last == SubSeq(s, cut + 1, Len(s))
             rest == IF cut = 0 THEN <<>> ELSE SubSeq(s, 1, cut - 1)
         IN  IF last = <<>> \/ last = <<".">>
             THEN PathParts(rest)
             ELSE Append(PathParts(rest), last)

\* Path(s).name
PathName(s) ==
    LET parts == PathParts(s)
    IN  IF parts = <<>> THEN <<>> ELSE parts[Len(parts)]

(***************************************************************************)
(* Values                                                                  *)
(***************************************************************************)
\* the MISSING sentinel
MISSING == [tag |-> "MISSING", val |-> <<>>]

\* a str result
Present(s) == [tag |-> "str", val |-> s]

\* no value returned yet
Pending == [tag |-> "pending", val |-> <<>>]

\* a frame reference that is None
NoFrame == 0

\* the name `frame` after `del frame`, or before its assignment
Unbound == -1

\* an int | None argument
None == <<>>

\* the three shapes of an exclusion argument: None, a str, a set of str
ArgNone == [t |-> "None", s |-> <<>>, e |-> {}]

ArgStr(s) == [t |-> "str", s |-> s, e |-> {}]

ArgSet(e) == [t |-> "set", s |-> <<>>, e |-> e]

\* __name__ of caller_resolver
SelfName == <<"l", "k", ".", "c", "r">>

\* __file__ of caller_resolver
SelfFile == <<"/", "l", "k", "/", "c", "r", ".", "p", "y">>

\* the resolver's own frame
SelfFrame == [mod |-> SelfName, path |-> SelfFile]

default_patterns ==
    { SelfFile,
      <<"l", "o", "g", "g", "i", "n", "g", "/", "_", "_", "i", "n", "i", "t", "_", "_", ".", "p", "y">>,
      <<"<", "f", "r", "o", "z", "e", "n", " ", "i", "m", "p", "o", "r", "t", "l", "i", "b", ".", "_", "b", "o", "o", "t", "s", "t", "r", "a", "p", ">">>,
      <<"<", "f", "r", "o", "z", "e", "n", " ", "i", "m", "p", "o", "r", "t", "l", "i", "b", ".", "_", "b", "o", "o", "t", "s", "t", "r", "a", "p", "_", "e", "x", "t", "e", "r", "n", "a", "l", ">">>,
      <<"i", "m", "p", "o", "r", "t", "l", "i", "b", "/", "_", "_", "i", "n", "i", "t", "_", "_", ".", "p", "y">>,
      <<"s", "i", "t", "e", "-", "p", "a", "c", "k", "a", "g", "e", "s">>,
      <<"<", "s", "t", "d", "i", "n", ">">>,
      <<"<", "s", "t", "r", "i", "n", "g", ">">>,
      <<"<">>,
      <<"v", "e", "n", "v", "/">>,
      <<".", "v", "e", "n", "v", "/">>,
      <<"v", "i", "r", "t", "u", "a", "l", "e", "n", "v", "/">> }

\* the case-insensitive virtual environment markers
venv_patterns ==
    { <<"v", "e", "n", "v">>,
      <<".", "v", "e", "n", "v">>,
      <<"v", "i", "r", "t", "u", "a", "l", "e", "n", "v">> }

(***************************************************************************)
(* Inputs                                                                  *)
(***************************************************************************)
\* user code: module "app.main", file "/a/m.py"
FrameApp ==
    [mod |-> <<"a", "p", "p", ".", "m", "a", "i", "n">>,
     path |-> <<"/", "a", "/", "m", ".", "p", "y">>]

\* module "foo.bar", file "/a/lib.py"
FrameFooDotBar ==
    [mod |-> <<"f", "o", "o", ".", "b", "a", "r">>,
     path |-> <<"/", "a", "/", "l", "i", "b", ".", "p", "y">>]

\* module "foobar", file "/VENV/t.py"
FrameFoobar ==
    [mod |-> <<"f", "o", "o", "b", "a", "r">>,
     path |-> <<"/", "V", "E", "N", "V", "/", "t", ".", "p", "y">>]

\* exec'd code whose globals hold no __name__, file "<stdin>"
FrameExec ==
    [mod |-> <<>>,
     path |-> <<"<", "s", "t", "d", "i", "n", ">">>]

\* module "foo", file "/v/.venv/e.py"
FrameFoo ==
    [mod |-> <<"f", "o", "o">>,
     path |-> <<"/", "v", "/", ".", "v", "e", "n", "v", "/", "e", ".", "p", "y">>]

\* module "pkg.internal", file "/site-packages/p.py"
FramePkgInternal ==
    [mod |-> <<"p", "k", "g", ".", "i", "n", "t", "e", "r", "n", "a", "l">>,
     path |-> <<"/", "s", "i", "t", "e", "-", "p", "a", "c", "k", "a", "g", "e", "s", "/", "p", ".", "p", "y">>]

\* module "pkg.sub", file "/site-packages/p.py"
FramePkgSub ==
    [mod |-> <<"p", "k", "g", ".", "s", "u", "b">>,
     path |-> <<"/", "s", "i", "t", "e", "-", "p", "a", "c", "k", "a", "g", "e", "s", "/", "p", ".", "p", "y">>]

\* CallerInfoFilter.filter: module "lk.filters", file "/lk/filters.py"
FrameFilter ==
    [mod |-> <<"l", "k", ".", "f", "i", "l", "t", "e", "r", "s">>,
     path |-> <<"/", "l", "k", "/", "f", "i", "l", "t", "e", "r", "s", ".", "p", "y">>]

\* a frame of the logging package: module "logging", file "/py/logging/__init__.py"
FrameLogging ==
    [mod |-> <<"l", "o", "g", "g", "i", "n", "g">>,
     path |-> <<"/", "p", "y", "/", "l", "o", "g", "g", "i", "n", "g", "/",
                "_", "_", "i", "n", "i", "t", "_", "_", ".", "p", "y">>]

\* code typed at an interactive console: module "__main__", file "<console>"
FrameConsole ==
    [mod |-> <<"_", "_", "m", "a", "i", "n", "_", "_">>,
     path |-> <<"<", "c", "o", "n", "s", "o", "l", "e", ">">>]

\* a frame whose attributes cannot be read: the read raises before giving a value
FrameBroken == [mod |-> <<>>, path |-> <<>>]

\* a stack holds frame identifiers; FrameOf gives the frame's attributes
FrameOf(id) ==
    CASE id = "self" -> SelfFrame
      [] id = "broken" -> FrameBroken
      [] id = "filter" -> FrameFilter
      [] id = "console" -> FrameConsole
      [] id = "logging" -> FrameLogging
      [] id = "app" -> FrameApp
      [] id = "foo.bar" -> FrameFooDotBar
      [] id = "foobar" -> FrameFoobar
      [] id = "exec" -> FrameExec
      [] id = "foo" -> FrameFoo
      [] id = "pkg.internal" -> FramePkgInternal
      [] id = "pkg.sub" -> FramePkgSub

Frames == {"app", "foo.bar", "foobar"}

\* chains of particular interest, on top of every chain over Frames
ExampleChains ==
    { <<"pkg.internal", "pkg.sub", "app">>,
      <<"exec", "foo", "app">>,
      <<"foo", "exec">>,
      <<"foobar", "foobar", "foobar", "foobar", "foobar", "app">> }

\* the frames above the resolver's own: the resolver is always called from some frame
CallerChains ==
    UNION {[1..n -> Frames] : n \in 1..MaxCallers} \cup ExampleChains

\* <<>>: the interpreter has no frame support and inspect.currentframe() is None
Stacks == {<<>>} \cup {<<"self">> \o c : c \in CallerChains}

Argvs ==
    { <<>>,
      <<<<>>>>,
      <<<<"/", "o", "p", "t", "/", "r", "u", "n", ".", "p", "y">>>> }

DepthArgs == {None} \cup {<<n>> : n \in 0..MaxDepth}

PrefixArgs ==
    { ArgNone,
      ArgStr(<<"f", "o", "o">>),
      ArgSet({}),
      ArgSet({<<"f", "o", "o">>}),
      ArgSet({<<"f", "o", "o", ".">>, <<"l", "k", ".">>}),
      ArgSet({<<"p", "k", "g", ".">>}) }

PatternArgs ==
    { ArgNone,
      ArgStr(<<"l", "i", "b">>),
      ArgSet({}),
      ArgSet({<<"l", "i", "b">>, <<"<">>}) }

(***************************************************************************)
(* Frame cursor                                                            *)
(***************************************************************************)
\* inspect.currentframe()
currentframe == IF stack = <<>> THEN NoFrame ELSE 1

\* frame.f_back
f_back(f) == IF f < Len(stack) THEN f + 1 ELSE NoFrame

\* frame.f_globals.get("__name__", "")
ModuleNameOf(f) == FrameOf(stack[f]).mod

\* frame.f_code.co_filename
FilenameOf(f) == FrameOf(stack[f]).path

\* reading the module name or the file name of frame f raises
Unreadable(f) == stack[f] = "broken"

\* AfterSkip with the skip loop running one iteration short
AfterSkipShort(n, start) == IF n + 1 < start THEN "skip" ELSE "walk"

\* the loop to enter once `n` iterations of the skip loop are done
AfterSkip(n, start) == IF n < start THEN "skip" ELSE "walk"

\* LoopContinues with the depth test written `inspected <= max_stack_depth`
LoopContinuesInclusive(f, n, depth) ==
    /\ f # NoFrame
    /\ (depth = None \/ n <= depth[1])

\* the condition of the while loop
LoopContinues(f, n, depth) ==
    /\ f # NoFrame
    /\ (depth = None \/ n < depth[1])

(***************************************************************************)
(* resolve_caller_module                                                   *)
(***************************************************************************)
NormalizePrefixes(a) ==
    CASE a.t = "None" -> {}
      [] a.t = "str" -> {a.s}
      [] OTHER -> a.e

\* the local prefix_set, bound once from the argument
prefix_set == NormalizePrefixes(excluded_prefixes)

\* ModuleEligible without the test for an empty module name
ModuleEligibleKeepsEmpty(module_name, prefixes) ==
    \/ prefixes = {}
    \/ ~ \E prefix \in prefixes : StartsWith(module_name, prefix)

\* ModuleEligible matching a prefix only up to a whole dotted segment
ModuleEligibleBySegment(module_name, prefixes) ==
    /\ module_name # <<>>
    /\ \/ prefixes = {}
       \/ ~ \E prefix \in prefixes :
              /\ StartsWith(module_name, prefix)
              /\ \/ Len(module_name) = Len(prefix)
                 \/ module_name[Len(prefix) + 1] = "."
                 \/ (prefix # <<>> /\ prefix[Len(prefix)] = ".")

\* the test that returns module_name
ModuleEligible(module_name, prefixes) ==
    /\ module_name # <<>>
    /\ \/ prefixes = {}
       \/ ~ \E prefix \in prefixes : StartsWith(module_name, prefix)

\* the return inside the skip loop, when the stack ends before stack_start frames
ModuleSkipFallback(current) == IF current THEN Present(SelfName) ELSE MISSING

\* ModuleFallback ignoring fallback_to_current
ModuleFallbackAlwaysCurrent(current) == Present(SelfName)

\* the return after the traversal
ModuleFallback(current) == IF current THEN Present(SelfName) ELSE MISSING

\* resolve_caller_module has a try/finally and no except clause
ModuleCatches == FALSE

\* ModuleFinally leaving the name bound
ModuleFinallyKeeps(f) == f

\* finally: del frame
ModuleFinally(f) == Unbound

ResolveCallerModule(start, depth, prefixes, current) ==
    /\ pc = "idle"
    /\ kind' = "module"
    /\ stack_start' = start
    /\ max_stack_depth' = depth
    /\ excluded_prefixes' = prefixes
    /\ fallback_to_current' = current
    /\ frame' = currentframe
    /\ skipped' = 0
    /\ inspected' = 0
    /\ pc' = AfterSkip(0, start)
    /\ UNCHANGED <<stack, argv, excluded_patterns, return_basename, fallback_to_argv,
                   seen_files, result, evaluated, accepted, fault>>

ModuleSkip ==
    /\ pc = "skip"
    /\ kind = "module"
    /\ IF frame = NoFrame
       THEN /\ result' = ModuleSkipFallback(fallback_to_current)
            /\ frame' = ModuleFinally(frame)
            /\ pc' = "done"
            /\ UNCHANGED skipped
       ELSE /\ frame' = f_back(frame)
            /\ skipped' = skipped + 1
            /\ pc' = AfterSkip(skipped + 1, stack_start)
            /\ UNCHANGED result
    /\ UNCHANGED <<stack, argv, args, inspected, seen_files, evaluated, accepted, fault>>
    /\ UNCHANGED <<parked, adapter, level_filter, venv>>

ModuleWalk ==
    /\ pc = "walk"
    /\ kind = "module"
    /\ IF LoopContinues(frame, inspected, max_stack_depth)
       THEN IF Unreadable(frame)
            THEN /\ fault' = frame
                 /\ frame' = ModuleFinally(frame)
                 /\ pc' = IF ModuleCatches THEN "done" ELSE "raised"
                 /\ result' = IF ModuleCatches
                              THEN ModuleFallback(fallback_to_current)
                              ELSE result
                 /\ UNCHANGED <<inspected, evaluated, accepted>>
            ELSE /\ evaluated' = Append(evaluated, frame)
                 /\ IF ModuleEligible(ModuleNameOf(frame), prefix_set)
                    THEN /\ result' = Present(ModuleNameOf(frame))
                         /\ accepted' = frame
                         /\ frame' = ModuleFinally(frame)
                         /\ pc' = "done"
                         /\ UNCHANGED inspected
                    ELSE /\ frame' = f_back(frame)
                         /\ inspected' = inspected + 1
                         /\ UNCHANGED <<result, pc, accepted>>
                 /\ UNCHANGED fault
       ELSE /\ result' = ModuleFallback(fallback_to_current)
            /\ frame' = ModuleFinally(frame)
            /\ pc' = "done"
            /\ UNCHANGED <<inspected, evaluated, accepted, fault>>
    /\ UNCHANGED <<stack, argv, args, skipped, seen_files>>
    /\ UNCHANGED <<parked, adapter, level_filter, venv>>

(***************************************************************************)
(* resolve_caller_filename                                                 *)
(***************************************************************************)
NormalizePatterns(a) ==
    CASE a.t = "None" -> default_patterns
      [] a.t = "str" -> {a.s}
      [] OTHER -> a.e

\* the local pattern_set, bound once from the argument
pattern_set == NormalizePatterns(excluded_patterns)

\* the first check: some configured pattern occurs in the path
PatternHit(caller_path, patterns) ==
    \E pattern \in patterns : Contains(caller_path, pattern)

\* VenvHit without lower-casing the path
VenvHitCaseSensitive(caller_path) ==
    \E venv_pattern \in venv_patterns : Contains(caller_path, venv_pattern)

\* the second check: the lower-cased path holds a virtual environment marker
VenvHit(caller_path) ==
    \E venv_pattern \in venv_patterns : Contains(Lower(caller_path), venv_pattern)

\* should_exclude without the virtual environment check
should_excludePatternsOnly(caller_path, patterns) ==
    PatternHit(caller_path, patterns)

\* should_exclude with the virtual environment check tied to the default patterns
should_excludeVenvByDefault(caller_path, patterns) ==
    \/ PatternHit(caller_path, patterns)
    \/ (patterns = default_patterns /\ VenvHit(caller_path))

should_exclude(caller_path, patterns) ==
    PatternHit(caller_path, patterns) \/ VenvHit(caller_path)

\* Rendered without the reduction to the base name
RenderedFullPath(p, basename) == p

\* Path(p).name if return_basename else p
Rendered(p, basename) == IF basename THEN PathName(p) ELSE p

\* FileSkipFallback returning MISSING outright
FileSkipFallbackAbsent(to_argv, to_current, basename) == MISSING

\* the fallbacks inside the skip loop, when the stack ends before stack_start frames
FileSkipFallback(to_argv, to_current, basename) ==
    IF to_argv /\ argv # <<>>
    THEN Present(Rendered(argv[1], basename))
    ELSE IF to_current
         THEN Present(Rendered(SelfFile, basename))
         ELSE MISSING

\* FileFallback trying the resolver's own file before sys.argv
FileFallbackCurrentFirst(to_argv, to_current, basename) ==
    IF to_current
    THEN Present(Rendered(SelfFile, basename))
    ELSE IF to_argv /\ argv # <<>>
         THEN Present(Rendered(argv[1], basename))
         ELSE MISSING

\* the fallbacks after the traversal
FileFallback(to_argv, to_current, basename) ==
    IF to_argv /\ argv # <<>>
    THEN Present(Rendered(argv[1], basename))
    ELSE IF to_current
         THEN Present(Rendered(SelfFile, basename))
         ELSE MISSING

\* FileCatches with the except clause missing
FileCatchesNothing == FALSE

\* except Exception: pass
FileCatches == TRUE

\* FileFinally leaving the name bound
FileFinallyKeeps(f) == f

\* finally: del frame
FileFinally(f) == Unbound

\* SeenInitial already holding the resolver's own file
SeenInitialOwnFile == {SelfFile}

\* seen_files: set[str] = set()
SeenInitial == {}

\* InspectedAfter counting only the frames that were tested for exclusion
InspectedAfterUnseenOnly(n, unseen) == IF unseen THEN n + 1 ELSE n

\* inspected += 1 at the end of the loop body, whether or not the path was unseen
InspectedAfter(n, unseen) == n + 1

\* the default of the fallback_to_current parameter, switched off
fallback_to_current_defaultOff == FALSE

\* fallback_to_current: bool = True
fallback_to_current_default == TRUE

\* Unseen with the seen-file set never consulted
UnseenAlways(caller_path, seen) == TRUE

\* caller_path not in seen_files
Unseen(caller_path, seen) == caller_path \notin seen

ResolveCallerFilename(start, depth, patterns, basename, to_argv, to_current) ==
    /\ pc = "idle"
    /\ kind' = "file"
    /\ stack_start' = start
    /\ max_stack_depth' = depth
    /\ excluded_patterns' = patterns
    /\ return_basename' = basename
    /\ fallback_to_argv' = to_argv
    /\ fallback_to_current' = to_current
    /\ frame' = currentframe
    /\ seen_files' = SeenInitial
    /\ skipped' = 0
    /\ inspected' = 0
    /\ pc' = AfterSkip(0, start)
    /\ UNCHANGED <<stack, argv, excluded_prefixes, result, evaluated, accepted, fault>>

FileSkip ==
    /\ pc = "skip"
    /\ kind = "file"
    /\ IF frame = NoFrame
       THEN /\ result' = FileSkipFallback(fallback_to_argv, fallback_to_current, return_basename)
            /\ frame' = FileFinally(frame)
            /\ pc' = "done"
            /\ UNCHANGED skipped
       ELSE /\ frame' = f_back(frame)
            /\ skipped' = skipped + 1
            /\ pc' = AfterSkip(skipped + 1, stack_start)
            /\ UNCHANGED result
    /\ UNCHANGED <<stack, argv, args, inspected, seen_files, evaluated, accepted, fault>>
    /\ UNCHANGED <<parked, adapter, level_filter, venv>>

FileWalk ==
    /\ pc = "walk"
    /\ kind = "file"
    /\ IF LoopContinues(frame, inspected, max_stack_depth)
       THEN IF Unreadable(frame)
            THEN /\ fault' = frame
                 /\ frame' = FileFinally(frame)
                 /\ pc' = IF FileCatches THEN "done" ELSE "raised"
                 /\ result' = IF FileCatches
                              THEN FileFallback(fallback_to_argv, fallback_to_current,
                                                return_basename)
                              ELSE result
                 /\ UNCHANGED <<inspected, seen_files, evaluated, accepted>>
            ELSE LET caller_path == FilenameOf(frame)
                 IN  /\ IF Unseen(caller_path, seen_files)
                        THEN /\ seen_files' = seen_files \cup {caller_path}
                             /\ evaluated' = Append(evaluated, frame)
                             /\ IF ~ should_exclude(caller_path, pattern_set)
                                THEN /\ result' = Present(Rendered(caller_path,
                                                                   return_basename))
                                     /\ accepted' = frame
                                     /\ frame' = FileFinally(frame)
                                     /\ pc' = "done"
                                     /\ UNCHANGED inspected
                                ELSE /\ frame' = f_back(frame)
                                     /\ inspected' = InspectedAfter(inspected, TRUE)
                                     /\ UNCHANGED <<result, pc, accepted>>
                        ELSE /\ frame' = f_back(frame)
                             /\ inspected' = InspectedAfter(inspected, FALSE)
                             /\ UNCHANGED <<result, pc, seen_files, evaluated, accepted>>
                     /\ UNCHANGED fault
       ELSE /\ result' = FileFallback(fallback_to_argv, fallback_to_current, return_basename)
            /\ frame' = FileFinally(frame)
            /\ pc' = "done"
            /\ UNCHANGED <<inspected, seen_files, evaluated, accepted, fault>>
    /\ UNCHANGED <<stack, argv, args, skipped>>
    /\ UNCHANGED <<parked, adapter, level_filter, venv>>

(***************************************************************************)
(* Specification                                                           *)
(***************************************************************************)
\* no second thread
NoThread == <<>>

\* no resolver call has started
CallIdle ==
    /\ pc = "idle"
    /\ kind = "none"
    /\ stack_start = 0
    /\ max_stack_depth = None
    /\ excluded_prefixes = ArgNone
    /\ excluded_patterns = ArgNone
    /\ return_basename = TRUE
    /\ fallback_to_argv = TRUE
    /\ fallback_to_current = TRUE
    /\ frame = Unbound
    /\ skipped = 0
    /\ inspected = 0
    /\ seen_files = {}
    /\ result = Pending
    /\ evaluated = <<>>
    /\ accepted = NoFrame
    /\ fault = NoFrame

\* the attribute names a log record may carry
RecordAttrs == {"name", "msg", "caller", "script_name"}

\* an attribute the record does not have
NoAttr == [tag |-> "unset", val |-> <<>>]

\* a log record before any filter has seen it: name "app", msg "hi"
LogRecord ==
    [attr \in RecordAttrs |->
        CASE attr = "name" -> Present(<<"a", "p", "p">>)
          [] attr = "msg" -> Present(<<"h", "i">>)
          [] OTHER -> NoAttr]

\* a level argument: None, an int, or a level name
LevelNone == [t |-> "None", n |-> 0, s |-> ""]

LevelInt(n) == [t |-> "int", n |-> n, s |-> ""]

LevelStr(s) == [t |-> "str", n |-> 0, s |-> s]

\* a float: a finite number, or an infinity by its sign
Finite(n) == [inf |-> 0, n |-> n]

NegInf == [inf |-> -1, n |-> 0]

PosInf == [inf |-> 1, n |-> 0]

\* no LevelRangeFilter has been constructed; the record is at INFO from logger "app"
LevelFilterAbsent ==
    /\ lr_pc = "none"
    /\ min_level = LevelNone
    /\ max_level = LevelNone
    /\ min_inclusive = TRUE
    /\ max_inclusive = TRUE
    /\ lr_min_level = NegInf
    /\ lr_max_level = PosInf
    /\ lr_min_comparator = "le"
    /\ lr_max_comparator = "ge"
    /\ lr_name = <<>>
    /\ levelno = 20
    /\ logger_name = <<"a", "p", "p">>
    /\ lr_result = <<>>

\* setup_venv has not been imported
NotImported ==
    /\ SYS_PLATFORM = "linux"
    /\ bin_is_dir = FALSE
    /\ python_executables = FALSE
    /\ activate_this_is_file = FALSE
    /\ run_path_ok = FALSE
    /\ lib_is_dir = FALSE
    /\ version_str_ok = FALSE
    /\ site_is_dir = FALSE
    /\ has_base_prefix = TRUE
    /\ prefix_differs = FALSE
    /\ has_real_prefix = FALSE
    /\ import_pc = "none"
    /\ method = 0
    /\ attempts = <<>>
    /\ activated = <<>>
    /\ calls = 0
    /\ exit_status = <<>>

\* no CallerInfoFilter has been constructed
FilterAbsent ==
    /\ filter_pc = "none"
    /\ self_attribute_name = ""
    /\ self_exclude_patterns = {}
    /\ self_stack_offset = 0
    /\ self_fallback_to_argv = TRUE
    /\ record = LogRecord
    /\ filter_result = <<>>

Init ==
    /\ stack \in Stacks
    /\ argv \in Argvs
    /\ CallIdle
    /\ parked = NoThread
    /\ exclude_patterns = ArgNone
    /\ override_exclude_patterns = ArgNone
    /\ FilterAbsent
    /\ LevelFilterAbsent
    /\ NotImported

CallModule ==
    \E start \in 0..MaxSkip, depth \in DepthArgs, prefixes \in PrefixArgs,
       current \in BOOLEAN :
        /\ ResolveCallerModule(start, depth, prefixes, current)
        /\ UNCHANGED <<parked, adapter, level_filter, venv>>

CallFilename ==
    \E start \in 0..MaxSkip, depth \in DepthArgs, patterns \in PatternArgs,
       basename \in BOOLEAN, to_argv \in BOOLEAN, to_current \in BOOLEAN :
        /\ ResolveCallerFilename(start, depth, patterns, basename, to_argv, to_current)
        /\ UNCHANGED <<parked, adapter, level_filter, venv>>

Next ==
    \/ CallModule
    \/ ModuleSkip
    \/ ModuleWalk
    \/ CallFilename
    \/ FileSkip
    \/ FileWalk

Spec == Init /\ [][Next]_vars

(***************************************************************************)
(* Properties.  The definitions below restate what the resolvers must      *)
(* return from the inputs alone, without following the traversal.          *)
(***************************************************************************)
Done == pc = "done"

ModuleAt(k) == FrameOf(stack[k]).mod

PathAt(k) == FrameOf(stack[k]).path

\* stack index k is at position k - 1, so position >= stack_start is k > stack_start
PostSkip == {k \in 1..Len(stack) : k > stack_start}

\* k lies within the first max_stack_depth post-skip frames
WithinDepth(k) ==
    max_stack_depth = None \/ k - stack_start <= max_stack_depth[1]

First(S) == CHOOSE k \in S : \A j \in S : k <= j

\* the configured prefixes: a single string stands for the set holding it
ConfiguredPrefixes ==
    IF excluded_prefixes.t = "str" THEN {excluded_prefixes.s} ELSE excluded_prefixes.e

\* the configured patterns: the default set when none is given
ConfiguredPatterns ==
    IF excluded_patterns.t = "None" THEN default_patterns
    ELSE IF excluded_patterns.t = "str" THEN {excluded_patterns.s}
    ELSE excluded_patterns.e

InternalModule(m) ==
    m = <<>> \/ \E p \in ConfiguredPrefixes : StartsWith(m, p)

HasMarker(p) == \E v \in venv_patterns : Contains(Lower(p), v)

InternalPath(p) ==
    (\E q \in ConfiguredPatterns : Contains(p, q)) \/ HasMarker(p)

ModuleCandidates == {k \in PostSkip : WithinDepth(k) /\ ~ InternalModule(ModuleAt(k))}

FileCandidates == {k \in PostSkip : WithinDepth(k) /\ ~ InternalPath(PathAt(k))}

\* a path in the configured output form
Form(p) == IF return_basename THEN PathName(p) ELSE p

ModuleChain == IF fallback_to_current THEN Present(SelfName) ELSE MISSING

FileChain ==
    CASE fallback_to_argv /\ argv # <<>> -> Present(Form(argv[1]))
      [] ~ (fallback_to_argv /\ argv # <<>>) /\ fallback_to_current -> Present(Form(SelfFile))
      [] OTHER -> MISSING

\* C1: resolve_caller_module returns the module name of the first frame at position
\* >= stack_start, within the first max_stack_depth post-skip frames, whose name is
\* non-empty and starts with no configured prefix; with no such frame it returns
\* its own module name if fallback_to_current, else MISSING.
C1_ModuleResolution ==
    (Done /\ kind = "module") =>
        result = IF ModuleCandidates # {}
                 THEN Present(ModuleAt(First(ModuleCandidates)))
                 ELSE ModuleChain

\* the chain ["pkg.internal", "pkg.sub", "app.main"] with prefix {"pkg."} gave "app.main"
C1_Witness ==
    /\ Done /\ kind = "module"
    /\ stack = <<"self", "pkg.internal", "pkg.sub", "app">>
    /\ stack_start = 1
    /\ excluded_prefixes = ArgSet({<<"p", "k", "g", ".">>})
    /\ result = Present(<<"a", "p", "p", ".", "m", "a", "i", "n">>)

\* C2: resolve_caller_filename returns the path, in the output form, of the first
\* frame at position >= stack_start, within the first max_stack_depth post-skip
\* frames, whose path is not excluded; with no such frame it returns what the
\* fallback chain yields.
C2_FileResolution ==
    (Done /\ kind = "file") =>
        result = IF FileCandidates # {}
                 THEN Present(Form(PathAt(First(FileCandidates))))
                 ELSE FileChain

\* an excluded frame was passed over and the second post-skip frame was returned
C2_Witness ==
    /\ Done /\ kind = "file"
    /\ FileCandidates # {}
    /\ First(FileCandidates) = stack_start + 2
    /\ accepted = stack_start + 2
    /\ result = Present(Form(PathAt(accepted)))

\* C3: when no frame is accepted the file resolver yields argv[0] (in the output
\* form) if fallback_to_argv and sys.argv is non-empty, otherwise its own file if
\* fallback_to_current, otherwise MISSING; its own file is never the answer while
\* the argv fallback applies; the module resolver has only the current-context
\* step.
C3_FallbackOrder ==
    (Done /\ accepted = NoFrame) =>
        /\ (kind = "file" /\ fallback_to_argv /\ argv # <<>>) =>
               /\ result = Present(Form(argv[1]))
               /\ result # Present(Form(SelfFile))
        /\ (kind = "file" /\ ~ (fallback_to_argv /\ argv # <<>>) /\ fallback_to_current) =>
               result = Present(Form(SelfFile))
        /\ (kind = "file" /\ ~ (fallback_to_argv /\ argv # <<>>) /\ ~ fallback_to_current) =>
               result = MISSING
        /\ (kind = "module" /\ fallback_to_current) => result = Present(SelfName)
        /\ (kind = "module" /\ ~ fallback_to_current) => result = MISSING

\* both fallbacks were enabled, sys.argv was available, and argv[0] won
C3_Witness ==
    /\ Done /\ kind = "file" /\ accepted = NoFrame
    /\ Len(stack) > stack_start
    /\ fallback_to_argv /\ fallback_to_current /\ argv # <<>> /\ argv[1] # <<>>
    /\ result = Present(Form(argv[1]))

\* C4: with every post-skip frame inside the exclusion set and every fallback
\* disabled, both resolvers return MISSING.
C4_AbsentWhenNothingLeft ==
    /\ (Done /\ kind = "module" /\ ~ fallback_to_current
          /\ \A k \in PostSkip : InternalModule(ModuleAt(k))) => result = MISSING
    /\ (Done /\ kind = "file" /\ ~ fallback_to_argv /\ ~ fallback_to_current
          /\ \A k \in PostSkip : InternalPath(PathAt(k))) => result = MISSING

\* a module resolution walked two internal frames and returned MISSING
C4_Witness ==
    /\ Done /\ kind = "module" /\ ~ fallback_to_current
    /\ Cardinality(PostSkip) >= 2
    /\ \A k \in PostSkip : InternalModule(ModuleAt(k))
    /\ Len(evaluated) >= 2
    /\ result = MISSING

\* C5: with max_stack_depth = n no frame at post-skip index >= n is returned or even
\* evaluated; with n = 1 and the only acceptable frame second after the skip the
\* result is the fallback; the skipped frames do not count, so an acceptable first
\* post-skip frame is returned whenever n >= 1.
C5_DepthLimitStrict ==
    (max_stack_depth # None) =>
        /\ accepted # NoFrame => accepted - 1 - stack_start < max_stack_depth[1]
        /\ \A i \in 1..Len(evaluated) :
               evaluated[i] - 1 - stack_start < max_stack_depth[1]
        /\ (Done /\ max_stack_depth[1] = 1 /\ kind = "module"
              /\ {k \in PostSkip : ~ InternalModule(ModuleAt(k))} = {stack_start + 2}) =>
               result = ModuleChain
        /\ (Done /\ max_stack_depth[1] = 1 /\ kind = "file"
              /\ {k \in PostSkip : ~ InternalPath(PathAt(k))} = {stack_start + 2}) =>
               result = FileChain
        /\ (Done /\ max_stack_depth[1] >= 1 /\ kind = "module"
              /\ stack_start + 1 \in PostSkip
              /\ ~ InternalModule(ModuleAt(stack_start + 1))) =>
               accepted = stack_start + 1
        /\ (Done /\ max_stack_depth[1] >= 1 /\ kind = "file"
              /\ stack_start + 1 \in PostSkip
              /\ ~ InternalPath(PathAt(stack_start + 1))) =>
               accepted = stack_start + 1

\* max_stack_depth = 1, one frame skipped, the acceptable frame second after the skip
C5_Witness ==
    /\ Done /\ kind = "file"
    /\ max_stack_depth = <<1>>
    /\ stack_start = 1
    /\ {k \in PostSkip : ~ InternalPath(PathAt(k))} = {3}
    /\ accepted = NoFrame
    /\ result = FileChain

\* C6: with stack_start greater than the number of frames each resolver returns
\* what its fallback chain yields after an exhausted traversal with the same flags,
\* and the file resolver does not return MISSING while a fallback is enabled and
\* available.
C6_SkipPastStack ==
    (Done /\ stack_start > Len(stack)) =>
        /\ accepted = NoFrame
        /\ kind = "module" => result = ModuleChain
        /\ kind = "file" => result = FileChain
        /\ (kind = "file" /\ (fallback_to_current \/ (fallback_to_argv /\ argv # <<>>))) =>
               result # MISSING

\* the skip loop ran off a two-frame stack and the file resolver fell back to its own file
C6_Witness ==
    /\ Done /\ kind = "file"
    /\ Len(stack) = 2 /\ stack_start = 3
    /\ skipped = 2
    /\ ~ fallback_to_argv /\ fallback_to_current
    /\ result = Present(Form(SelfFile))

\* C7: no frame at a position < stack_start is tested against the exclusion set or
\* returned.
C7_SkipUnconditional ==
    /\ \A i \in 1..Len(evaluated) : evaluated[i] - 1 >= stack_start
    /\ accepted # NoFrame => accepted - 1 >= stack_start

\* a skipped frame was acceptable, every later frame was excluded, the result is the fallback
C7_Witness ==
    /\ Done /\ kind = "file"
    /\ stack_start = 2 /\ Len(stack) >= 3
    /\ ~ InternalPath(PathAt(2))
    /\ \A k \in PostSkip : InternalPath(PathAt(k))
    /\ evaluated # <<>>
    /\ accepted = NoFrame
    /\ result = FileChain

\* C8: the module resolver passes over a frame iff its module name is empty or
\* starts, character by character, with a configured prefix, a single string
\* counting as the set that holds it.
C8_PrefixIsPlainString ==
    (kind = "module") =>
        \A i \in 1..Len(evaluated) :
            (evaluated[i] # accepted) <=> InternalModule(ModuleAt(evaluated[i]))

\* the string "foo" excluded "foo.bar" and "foobar"
C8_Witness ==
    /\ Done /\ kind = "module"
    /\ excluded_prefixes = ArgStr(<<"f", "o", "o">>)
    /\ stack = <<"self", "foo.bar", "foobar">>
    /\ stack_start = 1
    /\ evaluated = <<2, 3>>
    /\ accepted = NoFrame

\* C9: the file resolver passes over an evaluated path iff a configured pattern
\* occurs in it or its lower-cased form holds an environment marker, whatever the
\* pattern set.
C9_PathExclusion ==
    (kind = "file") =>
        \A i \in 1..Len(evaluated) :
            (evaluated[i] # accepted) <=> InternalPath(PathAt(evaluated[i]))

\* with an empty pattern set "/VENV/t.py" was passed over for its marker alone
C9_Witness ==
    /\ kind = "file"
    /\ excluded_patterns = ArgSet({})
    /\ \E i \in 1..Len(evaluated) :
           /\ stack[evaluated[i]] = "foobar"
           /\ evaluated[i] # accepted
           /\ ~ \E q \in ConfiguredPatterns : Contains(PathAt(evaluated[i]), q)
    /\ accepted # NoFrame

\* C10: with an empty exclusion set the module resolver returns the first post-skip
\* frame (within max_stack_depth) whose module name is non-empty, and the file
\* resolver the first whose path holds no environment marker in any letter case.
C10_EmptyExclusionSet ==
    /\ (Done /\ kind = "module" /\ ConfiguredPrefixes = {}) =>
           LET named == {k \in PostSkip : WithinDepth(k) /\ ModuleAt(k) # <<>>}
           IN  IF named # {}
               THEN accepted = First(named) /\ result = Present(ModuleAt(First(named)))
               ELSE accepted = NoFrame
    /\ (Done /\ kind = "file" /\ excluded_patterns = ArgSet({})) =>
           LET clean == {k \in PostSkip : WithinDepth(k) /\ ~ HasMarker(PathAt(k))}
           IN  IF clean # {}
               THEN accepted = First(clean) /\ result = Present(Form(PathAt(First(clean))))
               ELSE accepted = NoFrame

\* with an empty pattern set the pseudo-file "<stdin>" was returned
C10_Witness ==
    /\ Done /\ kind = "file"
    /\ excluded_patterns = ArgSet({})
    /\ stack_start = 1
    /\ Len(stack) >= 2
    /\ stack[2] = "exec"
    /\ accepted = 2
    /\ result = Present(<<"<", "s", "t", "d", "i", "n", ">">>)

\* k is the first post-skip frame with its path
FirstAppearance(k) == \A j \in PostSkip : j < k => PathAt(j) # PathAt(k)

RECURSIVE StripSeparators(_)
StripSeparators(p) ==
    IF p # <<>> /\ p[Len(p)] = "/" THEN StripSeparators(SubSeq(p, 1, Len(p) - 1)) ELSE p

\* n is what follows the last separator of p
IsLastComponent(n, p) ==
    LET q == StripSeparators(p)
    IN  /\ Len(n) <= Len(q)
        /\ SubSeq(q, Len(q) - Len(n) + 1, Len(q)) = n
        /\ (Len(n) < Len(q) => q[Len(q) - Len(n)] = "/")

\* the path a file resolution's result derives from
UnderlyingPath ==
    IF accepted # NoFrame THEN PathAt(accepted)
    ELSE IF fallback_to_argv /\ argv # <<>> THEN argv[1]
    ELSE SelfFile

\* C12: a present result of file resolution, from a frame or from a fallback, holds
\* no path separator and is the last component of its path when return_basename is
\* true, and is the path itself, unmodified, when return_basename is false.
C12_OutputForm ==
    (Done /\ kind = "file" /\ result # MISSING) =>
        /\ result.tag = "str"
        /\ IF return_basename
           THEN /\ \A i \in 1..Len(result.val) : result.val[i] # "/"
                /\ IsLastComponent(result.val, UnderlyingPath)
           ELSE result.val = UnderlyingPath

\* "/a/m.py" was accepted and returned as "m.py"
C12_Witness ==
    /\ Done /\ kind = "file" /\ return_basename
    /\ accepted # NoFrame
    /\ PathAt(accepted) = <<"/", "a", "/", "m", ".", "p", "y">>
    /\ result = Present(<<"m", ".", "p", "y">>)


(***************************************************************************)
(* Faults while a frame is read                                            *)
(***************************************************************************)

\* call chains that hold a frame whose attributes cannot be read
FaultChains ==
    {c \in UNION {[1..n -> {"app", "foobar", "broken"}] : n \in 1..MaxCallers} :
        \E i \in 1..Len(c) : c[i] = "broken"}

FaultStacks == {<<"self">> \o c : c \in FaultChains}

InitFault ==
    /\ stack \in FaultStacks
    /\ argv \in Argvs
    /\ CallIdle
    /\ parked = NoThread
    /\ exclude_patterns = ArgNone
    /\ override_exclude_patterns = ArgNone
    /\ FilterAbsent
    /\ LevelFilterAbsent
    /\ NotImported

SpecFault == InitFault /\ [][Next]_vars

\* the call has ended, by a return or by an exception leaving it
Ended == pc \in {"done", "raised"}

\* the module resolver reaches frame k and cannot read it
ModuleFaultAt(k) ==
    /\ k \in PostSkip
    /\ WithinDepth(k)
    /\ Unreadable(k)
    /\ \A j \in PostSkip : j < k => ~ Unreadable(j) /\ InternalModule(ModuleAt(j))

\* the file resolver reaches frame k and cannot read it
FileFaultAt(k) ==
    /\ k \in PostSkip
    /\ WithinDepth(k)
    /\ Unreadable(k)
    /\ \A j \in PostSkip : j < k => ~ Unreadable(j) /\ InternalPath(PathAt(j))

\* C17: a fault while reading a frame is caught by resolve_caller_filename, which
\* then ends the walk without a frame and returns what its fallback chain gives;
\* resolve_caller_module catches nothing, so the same fault leaves it as an
\* exception and no value is returned.
C17_FaultRouting ==
    /\ (kind = "file") =>
           /\ pc # "raised"
           /\ fault # NoFrame => Done /\ FileFaultAt(fault)
           /\ Done => \A k \in 1..Len(stack) :
                          FileFaultAt(k) => /\ fault = k
                                            /\ accepted = NoFrame
                                            /\ result = FileChain
    /\ (kind = "module") =>
           /\ fault # NoFrame => pc = "raised" /\ ModuleFaultAt(fault)
           /\ pc = "raised" => result = Pending /\ accepted = NoFrame
           /\ Ended => \A k \in 1..Len(stack) : ModuleFaultAt(k) => pc = "raised" /\ fault = k

\* the file resolver met an unreadable frame after an excluded one and returned argv[0]
C17_Witness ==
    /\ Done
    /\ kind = "file"
    /\ stack = <<"self", "foobar", "broken">>
    /\ evaluated = <<2>>
    /\ fault = 3
    /\ argv = <<<<"/", "o", "p", "t", "/", "r", "u", "n", ".", "p", "y">>>>
    /\ fallback_to_argv
    /\ return_basename
    /\ result = Present(<<"r", "u", "n", ".", "p", "y">>)

\* C18: when either resolver ends, by a return during the skip, by returning a
\* frame, by its fallback after the walk, or by a fault, its frame reference has
\* been released.
C18_FrameReleased ==
    Ended => frame = Unbound

\* the module resolver was left by an exception at frame 2 and holds no frame
C18_Witness ==
    /\ kind = "module"
    /\ pc = "raised"
    /\ fault = 2
    /\ frame = Unbound


(***************************************************************************)
(* CallerInfoFilter                                                        *)
(***************************************************************************)

\* the frames filter() skips before any stack_offset
InternalFrames == 8

\* the largest stack_offset drawn
MaxOffset == 1

\* the default patterns CallerInfoFilter.__init__ starts from
filter_default_patterns ==
    { <<"l", "o", "g", "g", "i", "n", "g", "/", "_", "_", "i", "n", "i", "t", "_", "_", ".", "p", "y">>,
      <<"<", "f", "r", "o", "z", "e", "n", " ", "i", "m", "p", "o", "r", "t", "l", "i", "b", ".", "_", "b", "o", "o", "t", "s", "t", "r", "a", "p", ">">>,
      <<"<", "f", "r", "o", "z", "e", "n", " ", "i", "m", "p", "o", "r", "t", "l", "i", "b", ".", "_", "b", "o", "o", "t", "s", "t", "r", "a", "p", "_", "e", "x", "t", "e", "r", "n", "a", "l", ">">>,
      <<"i", "m", "p", "o", "r", "t", "l", "i", "b", "/", "_", "_", "i", "n", "i", "t", "_", "_", ".", "p", "y">>,
      <<"s", "i", "t", "e", "-", "p", "a", "c", "k", "a", "g", "e", "s">>,
      <<"<", "s", "t", "d", "i", "n", ">">>,
      <<"<", "s", "t", "r", "i", "n", "g", ">">> }

\* BuildExcludePatterns testing the override for truth instead of for None
BuildExcludePatternsIfTruthy(extra, override) ==
    IF override.t # "None" /\ override.e # {}
    THEN override.e
    ELSE filter_default_patterns \cup (IF extra.t # "None" /\ extra.e # {} THEN extra.e ELSE {})

\* __init__: the override when it is not None, else the defaults updated with the
\* extra patterns when those are given and non-empty
BuildExcludePatterns(extra, override) ==
    IF override.t # "None"
    THEN override.e
    ELSE filter_default_patterns \cup (IF extra.t # "None" /\ extra.e # {} THEN extra.e ELSE {})

\* NewCallerInfoFilter with the update of the extra patterns run after the
\* if/else, on whichever set self.exclude_patterns then names
NewCallerInfoFilterInPlace(attribute_name, stack_offset, to_argv) ==
    LET merged == BuildExcludePatterns(exclude_patterns, override_exclude_patterns)
                      \cup exclude_patterns.e
    IN  /\ filter_pc = "none"
        /\ self_attribute_name' = attribute_name
        /\ self_stack_offset' = stack_offset
        /\ self_fallback_to_argv' = to_argv
        /\ self_exclude_patterns' = merged
        /\ override_exclude_patterns' = IF override_exclude_patterns.t # "None"
                                        THEN ArgSet(merged)
                                        ELSE override_exclude_patterns
        /\ filter_pc' = "ready"
        /\ UNCHANGED <<exclude_patterns, record, filter_result>>
        /\ UNCHANGED <<call, argv, parked, level_filter, venv>>

\* CallerInfoFilter(attribute_name, exclude_patterns, override_exclude_patterns,
\*                  stack_offset, fallback_to_argv=to_argv)
NewCallerInfoFilter(attribute_name, stack_offset, to_argv) ==
    /\ filter_pc = "none"
    /\ self_attribute_name' = attribute_name
    /\ self_stack_offset' = stack_offset
    /\ self_fallback_to_argv' = to_argv
    /\ self_exclude_patterns' = BuildExcludePatterns(exclude_patterns,
                                                     override_exclude_patterns)
    /\ filter_pc' = "ready"
    /\ UNCHANGED <<exclude_patterns, override_exclude_patterns, record, filter_result>>
    /\ UNCHANGED <<call, argv, parked, level_filter, venv>>

\* the attribute names drawn: the default, a custom one, one the record already has
AttributeNames == {"caller", "script_name", "msg"}

Construct ==
    \E attribute_name \in AttributeNames, stack_offset \in 0..MaxOffset,
       to_argv \in BOOLEAN :
        NewCallerInfoFilter(attribute_name, stack_offset, to_argv)

\* filter(): caller = resolve_caller_filename(stack_start = 8 + self.stack_offset,
\*     excluded_patterns = self.exclude_patterns, fallback_to_argv = self.fallback_to_argv)
FilterResolve ==
    /\ filter_pc = "ready"
    /\ ResolveCallerFilename(InternalFrames + self_stack_offset, None,
                             ArgSet(self_exclude_patterns), TRUE,
                             self_fallback_to_argv, fallback_to_current_default)
    /\ filter_pc' = "resolving"
    /\ UNCHANGED <<exclude_patterns, override_exclude_patterns, self_attribute_name,
                   self_exclude_patterns, self_stack_offset, self_fallback_to_argv,
                   record, filter_result>>
    /\ UNCHANGED <<parked, level_filter, venv>>

\* SetAttr writing the default attribute whatever name is configured
SetAttrCaller(rec, name, value) == [rec EXCEPT !["caller"] = value]

\* setattr(record, name, value)
SetAttr(rec, name, value) == [rec EXCEPT ![name] = value]

\* FilterVerdict letting the record through only when a caller name was found
FilterVerdictTruthy(caller) == caller # MISSING /\ caller.val # <<>>

\* return True
FilterVerdict(caller) == TRUE

\* filter(): setattr(record, self.attribute_name, caller); return True
FilterSetattr ==
    /\ filter_pc = "resolving"
    /\ pc = "done"
    /\ record' = SetAttr(record, self_attribute_name, result)
    /\ filter_result' = <<FilterVerdict(result)>>
    /\ filter_pc' = "returned"
    /\ UNCHANGED <<exclude_patterns, override_exclude_patterns, self_attribute_name,
                   self_exclude_patterns, self_stack_offset, self_fallback_to_argv>>
    /\ UNCHANGED <<call, argv, parked, level_filter, venv>>

\* a direct call of resolve_caller_module with a prefix set of the caller's
BriefModuleCall ==
    \E start \in 1..2,
       prefixes \in {ArgNone, ArgStr(<<"l", "k", ".">>), ArgSet({<<"l", "o", "g">>})} :
        /\ ResolveCallerModule(start, None, prefixes, TRUE)
        /\ UNCHANGED <<parked, adapter, level_filter, venv>>

\* a direct call of resolve_caller_filename with a pattern set of the caller's
BriefFilenameCall ==
    \E start \in 1..2,
       patterns \in {ArgNone, ArgSet({}), ArgSet({<<"l", "i", "b">>, <<"<">>})},
       basename \in BOOLEAN :
        /\ ResolveCallerFilename(start, None, patterns, basename, TRUE, TRUE)
        /\ UNCHANGED <<parked, adapter, level_filter, venv>>

\* the stacks of a log call: the resolver, filter(), the logging package's frames,
\* then the code that logged
AdapterStacks ==
    LET head == <<"self", "filter">>
        L(n) == [i \in 1..n |-> "logging"]
    IN  { head \o L(6) \o <<"app">>,
          head \o L(6) \o <<"foo.bar", "app">>,
          head \o L(7) \o <<"app">>,
          head \o L(3) \o <<"app">>,
          head \o L(6) \o <<"foobar">>,
          head \o L(6) \o <<"broken", "app">>,
          head \o L(6) \o <<"console", "app">> }

\* the extra patterns a user may give
ExtraArgs == {ArgNone, ArgSet({}), ArgSet({<<"l", "i", "b">>})}

\* the override patterns a user may give
OverrideArgs == {ArgNone, ArgSet({}), ArgSet({<<"/", "a", "/", "m">>})}

InitAdapter ==
    /\ stack \in AdapterStacks
    /\ argv \in Argvs
    /\ CallIdle
    /\ parked = NoThread
    /\ exclude_patterns \in ExtraArgs
    /\ override_exclude_patterns \in OverrideArgs
    /\ FilterAbsent
    /\ LevelFilterAbsent
    /\ NotImported

NextAdapter ==
    \/ Construct
    \/ FilterResolve
    \/ FileSkip
    \/ FileWalk
    \/ FilterSetattr
    \/ BriefModuleCall
    \/ ModuleSkip
    \/ ModuleWalk
    \/ BriefFilenameCall

SpecAdapter == InitAdapter /\ [][NextAdapter]_vars


\* filter() has returned
Returned == filter_pc = "returned"

\* C13: CallerInfoFilter.filter returns True for every record, stack and
\* configuration, whether resolution returned a frame's file or a fallback; the
\* resolver call it makes never leaves it by an exception.
C13_AlwaysAllows ==
    /\ Returned => filter_result = <<TRUE>>
    /\ filter_pc = "resolving" => pc # "raised"
    /\ filter_result # <<>> => Returned

\* with sys.argv = [""] and no user frame on the stack the resolved name is the
\* empty string, and the record is still let through
C13_Witness ==
    /\ Returned
    /\ accepted = NoFrame
    /\ result = Present(<<>>)
    /\ filter_result = <<TRUE>>

\* the exclusion set the filter is to use, from what the user gave
ExpectedExcludePatterns ==
    IF override_exclude_patterns # ArgNone
    THEN override_exclude_patterns.e
    ELSE filter_default_patterns \cup exclude_patterns.e

\* C14: filter() calls resolve_caller_filename with stack_start = 8 + stack_offset,
\* with its configured fallback_to_argv, and with the override set when one was
\* given (extra patterns are then ignored), else the filter's default set united
\* with the extra patterns.
C14_AdapterArguments ==
    (filter_pc \in {"resolving", "returned"}) =>
        /\ kind = "file"
        /\ stack_start = 8 + self_stack_offset
        /\ fallback_to_argv = self_fallback_to_argv
        /\ excluded_patterns = ArgSet(ExpectedExcludePatterns)

\* an empty override with extra pattern "lib": the resolver was given the empty set
C14_Witness ==
    /\ filter_pc = "resolving"
    /\ override_exclude_patterns = ArgSet({})
    /\ exclude_patterns = ArgSet({<<"l", "i", "b">>})
    /\ self_stack_offset = 1
    /\ stack_start = 9
    /\ excluded_patterns = ArgSet({})

\* the filter's configuration
self_config ==
    <<self_attribute_name, self_exclude_patterns, self_stack_offset, self_fallback_to_argv>>

\* C15: filter() writes the resolver's result on the record under the configured
\* attribute name, leaves every other attribute as it was, and leaves the
\* filter's configuration unchanged.
C15_RecordWrite ==
    /\ [](Returned => record = [LogRecord EXCEPT ![self_attribute_name] = result])
    /\ [](~ Returned => record = LogRecord)
    /\ [][filter_pc # "none" => UNCHANGED self_config]_vars

\* the result "m.py" was written under "script_name"
C15_Witness ==
    /\ Returned
    /\ self_attribute_name = "script_name"
    /\ record["script_name"] = Present(<<"m", ".", "p", "y">>)
    /\ record["caller"] = NoAttr
    /\ record["msg"] = Present(<<"h", "i">>)

\* C16: when no post-skip frame is accepted by the file resolver, CallerInfoFilter
\* sets the record attribute to the string "unknown".
C16_UnknownWhenUndetermined ==
    (Returned /\ accepted = NoFrame) =>
        record[self_attribute_name] = Present(<<"u", "n", "k", "n", "o", "w", "n">>)

\* C19: the sets a caller passes are never changed: from the start of a resolver
\* call its prefix and pattern arguments keep their elements, and constructing
\* or running the filter leaves the user's extra and override sets as given.
C19_CallerSetsNotMutated ==
    /\ [][/\ exclude_patterns' = exclude_patterns
          /\ override_exclude_patterns' = override_exclude_patterns
          /\ pc # "idle" => /\ excluded_prefixes' = excluded_prefixes
                            /\ excluded_patterns' = excluded_patterns]_vars
    /\ [](filter_pc # "none" /\ override_exclude_patterns # ArgNone
              => self_exclude_patterns = override_exclude_patterns.e)

\* a filter built with both an extra and an override set has run to its end
C19_Witness ==
    /\ Returned
    /\ exclude_patterns = ArgSet({<<"l", "i", "b">>})
    /\ override_exclude_patterns = ArgSet({<<"/", "a", "/", "m">>})
    /\ self_exclude_patterns = {<<"/", "a", "/", "m">>}
    /\ evaluated # <<>>


(***************************************************************************)
(* Two threads                                                             *)
(***************************************************************************)

\* the running thread's call state, as kept while the thread is not running
Context ==
    [stack |-> stack, pc |-> pc, kind |-> kind, stack_start |-> stack_start,
     max_stack_depth |-> max_stack_depth, excluded_prefixes |-> excluded_prefixes,
     excluded_patterns |-> excluded_patterns, return_basename |-> return_basename,
     fallback_to_argv |-> fallback_to_argv, fallback_to_current |-> fallback_to_current,
     frame |-> frame, skipped |-> skipped, inspected |-> inspected,
     seen_files |-> seen_files, result |-> result, evaluated |-> evaluated,
     accepted |-> accepted, fault |-> fault]

\* SeenOf with one seen-file set kept at module level for every call
SeenOfShared(ctx) == seen_files

\* seen_files is a local of the call: a thread resumes with the set it left
SeenOf(ctx) == ctx.seen_files

\* the interpreter hands control to the other thread
Switch ==
    /\ parked # NoThread
    /\ parked' = Context
    /\ stack' = parked.stack
    /\ pc' = parked.pc
    /\ kind' = parked.kind
    /\ stack_start' = parked.stack_start
    /\ max_stack_depth' = parked.max_stack_depth
    /\ excluded_prefixes' = parked.excluded_prefixes
    /\ excluded_patterns' = parked.excluded_patterns
    /\ return_basename' = parked.return_basename
    /\ fallback_to_argv' = parked.fallback_to_argv
    /\ fallback_to_current' = parked.fallback_to_current
    /\ frame' = parked.frame
    /\ skipped' = parked.skipped
    /\ inspected' = parked.inspected
    /\ seen_files' = SeenOf(parked)
    /\ result' = parked.result
    /\ evaluated' = parked.evaluated
    /\ accepted' = parked.accepted
    /\ fault' = parked.fault
    /\ UNCHANGED <<argv, adapter, level_filter, venv>>

\* the stacks of the two threads
ConcStacks ==
    { <<"self", "foo.bar", "app">>,
      <<"self", "app", "foo.bar">> }

InitConc ==
    /\ stack \in ConcStacks
    /\ argv \in Argvs
    /\ CallIdle
    /\ parked \in {[Context EXCEPT !.stack = other] : other \in ConcStacks}
    /\ exclude_patterns = ArgNone
    /\ override_exclude_patterns = ArgNone
    /\ FilterAbsent
    /\ LevelFilterAbsent
    /\ NotImported

NextConc ==
    \/ BriefModuleCall
    \/ ModuleSkip
    \/ ModuleWalk
    \/ BriefFilenameCall
    \/ FileSkip
    \/ FileWalk
    \/ Switch

SpecConc == InitConc /\ [][NextConc]_vars

\* what the running thread's call returns when no other thread runs
AloneResult ==
    IF kind = "module"
    THEN IF ModuleCandidates # {}
         THEN Present(ModuleAt(First(ModuleCandidates)))
         ELSE ModuleChain
    ELSE IF FileCandidates # {}
         THEN Present(Form(PathAt(First(FileCandidates))))
         ELSE FileChain

\* C20: with two threads resolving on their own stacks and their steps interleaved
\* in any order, each call returns what it returns when run alone, tests for
\* exclusion exactly the first appearances of the paths of its own stack up to the
\* frame it returns, and has counted only its own walk steps.
C20_ConcurrentCallsIndependent ==
    Done =>
        /\ result = AloneResult
        /\ (kind = "file") =>
               {evaluated[i] : i \in 1..Len(evaluated)} =
                   {k \in PostSkip : /\ FirstAppearance(k)
                                     /\ (accepted = NoFrame \/ k <= accepted)}
        /\ seen_files = IF kind = "file"
                        THEN {PathAt(evaluated[i]) : i \in 1..Len(evaluated)}
                        ELSE {}
        /\ inspected = Cardinality({k \in PostSkip : accepted = NoFrame \/ k < accepted})

\* one thread returned "/a/m.py" for a path the other thread, still walking, had
\* already recorded as seen
C20_Witness ==
    /\ Done
    /\ kind = "file"
    /\ accepted # NoFrame
    /\ parked.pc = "walk"
    /\ parked.kind = "file"
    /\ PathAt(accepted) \in parked.seen_files


(***************************************************************************)
(* LevelRangeFilter                                                        *)
(***************************************************************************)

\* convert_level_to_int: an int level is itself, a level name is logging's number
convert_level_to_int(level) ==
    IF level.t = "int" THEN level.n
    ELSE CASE level.s = "DEBUG" -> 10
           [] level.s = "INFO" -> 20
           [] level.s = "WARNING" -> 30
           [] level.s = "ERROR" -> 40
           [] level.s = "CRITICAL" -> 50

\* float.__gt__(float)
Greater(a, b) == a.inf > b.inf \/ (a.inf = 0 /\ b.inf = 0 /\ a.n > b.n)

\* a.__le__(n), a.__lt__(n), a.__ge__(n), a.__gt__(n) for an int n
Compare(cmp, a, n) ==
    CASE cmp = "le" -> a.inf = -1 \/ (a.inf = 0 /\ a.n <= n)
      [] cmp = "lt" -> a.inf = -1 \/ (a.inf = 0 /\ a.n < n)
      [] cmp = "ge" -> a.inf = 1 \/ (a.inf = 0 /\ a.n >= n)
      [] cmp = "gt" -> a.inf = 1 \/ (a.inf = 0 /\ a.n > n)

\* MinComparator taking __le__ whatever min_inclusive says
MinComparatorAlwaysInclusive(inclusive) == "le"

\* self._min_comparator = self.min_level.__le__ if min_inclusive else self.min_level.__lt__
MinComparator(inclusive) == IF inclusive THEN "le" ELSE "lt"

\* self._max_comparator = self.max_level.__ge__ if max_inclusive else self.max_level.__gt__
MaxComparator(inclusive) == IF inclusive THEN "ge" ELSE "gt"

\* LevelRangeFilter(min, max, min_inclusive=min_incl, max_inclusive=max_incl, name=name)
NewLevelRangeFilter(min, max, min_incl, max_incl, name) ==
    /\ lr_pc = "none"
    /\ min_level' = min
    /\ max_level' = max
    /\ min_inclusive' = min_incl
    /\ max_inclusive' = max_incl
    /\ lr_name' = name
    /\ lr_min_level' = IF min # LevelNone THEN Finite(convert_level_to_int(min)) ELSE NegInf
    /\ lr_max_level' = IF max # LevelNone THEN Finite(convert_level_to_int(max)) ELSE PosInf
    /\ lr_min_comparator' = MinComparator(min_incl)
    /\ lr_max_comparator' = MaxComparator(max_incl)
    /\ lr_pc' = "ready"
    /\ UNCHANGED <<levelno, logger_name, lr_result>>
    /\ UNCHANGED <<call, argv, parked, adapter, venv>>

\* the level arguments drawn
LevelArgs ==
    {LevelNone, LevelInt(10), LevelInt(20), LevelInt(30), LevelStr("INFO"),
     LevelStr("WARNING")}

\* the filter names drawn: none, and "app"
FilterNames == {<<>>, <<"a", "p", "p">>}

ConstructLevelRange ==
    \E min \in LevelArgs, max \in LevelArgs, min_incl \in BOOLEAN, max_incl \in BOOLEAN,
       name \in FilterNames :
        NewLevelRangeFilter(min, max, min_incl, max_incl, name)

\* LevelRangeFilter.filter(record)
LevelRangeFilter_filter ==
    /\ lr_pc = "ready"
    /\ lr_result' =
           <<IF Greater(lr_min_level, lr_max_level)
             THEN FALSE
             ELSE LET pass_min_check == Compare(lr_min_comparator, lr_min_level, levelno)
                      pass_max_check == Compare(lr_max_comparator, lr_max_level, levelno)
                  IN  pass_min_check /\ pass_max_check>>
    /\ lr_pc' = "returned"
    /\ UNCHANGED <<min_level, max_level, min_inclusive, max_inclusive, lr_min_level,
                   lr_max_level, lr_min_comparator, lr_max_comparator, lr_name, levelno,
                   logger_name>>
    /\ UNCHANGED <<call, argv, parked, adapter, venv>>

\* the levels of the records drawn
RecordLevels == {10, 20, 30, 40}

\* the logger names drawn: "app", "app.x", "apple", "lib"
LoggerNames ==
    { <<"a", "p", "p">>, <<"a", "p", "p", ".", "x">>, <<"a", "p", "p", "l", "e">>,
      <<"l", "i", "b">> }

InitLevel ==
    /\ stack = <<>>
    /\ argv = <<>>
    /\ CallIdle
    /\ parked = NoThread
    /\ exclude_patterns = ArgNone
    /\ override_exclude_patterns = ArgNone
    /\ FilterAbsent
    /\ NotImported
    /\ lr_pc = "none"
    /\ min_level = LevelNone
    /\ max_level = LevelNone
    /\ min_inclusive = TRUE
    /\ max_inclusive = TRUE
    /\ lr_min_level = NegInf
    /\ lr_max_level = PosInf
    /\ lr_min_comparator = "le"
    /\ lr_max_comparator = "ge"
    /\ lr_name = <<>>
    /\ levelno \in RecordLevels
    /\ logger_name \in LoggerNames
    /\ lr_result = <<>>

NextLevel ==
    \/ ConstructLevelRange
    \/ LevelRangeFilter_filter

SpecLevel == InitLevel /\ [][NextLevel]_vars

\* the number a level argument stands for
LevelNumber(level) == convert_level_to_int(level)

\* the record's level is not below the lower bound
AboveMin ==
    \/ min_level = LevelNone
    \/ IF min_inclusive THEN LevelNumber(min_level) <= levelno
       ELSE LevelNumber(min_level) < levelno

\* the record's level is not above the upper bound
BelowMax ==
    \/ max_level = LevelNone
    \/ IF max_inclusive THEN levelno <= LevelNumber(max_level)
       ELSE levelno < LevelNumber(max_level)

\* both bounds are given
Bounded == min_level # LevelNone /\ max_level # LevelNone

\* C21: LevelRangeFilter.filter accepts a record iff its level lies between
\* min_level and max_level under the configured inclusivity, None being an open
\* bound; so with min above max nothing is accepted, with min equal to max only
\* that level is accepted and only when both bounds are inclusive, and with both
\* bounds None everything is accepted.
C21_LevelRange ==
    (lr_pc = "returned") =>
        /\ lr_result = <<AboveMin /\ BelowMax>>
        /\ (Bounded /\ LevelNumber(min_level) > LevelNumber(max_level))
               => lr_result = <<FALSE>>
        /\ (Bounded /\ LevelNumber(min_level) = LevelNumber(max_level))
               => lr_result = <<min_inclusive /\ max_inclusive
                                   /\ levelno = LevelNumber(min_level)>>
        /\ (min_level = LevelNone /\ max_level = LevelNone) => lr_result = <<TRUE>>

\* min_level 20 exclusive, max_level "WARNING" inclusive: a record at 20 was rejected
C21_Witness ==
    /\ lr_pc = "returned"
    /\ min_level = LevelInt(20)
    /\ max_level = LevelStr("WARNING")
    /\ ~ min_inclusive
    /\ max_inclusive
    /\ levelno = 20
    /\ lr_result = <<FALSE>>

\* the record's logger is the filter's name or a descendant of it
NameMatches ==
    logger_name = lr_name \/ StartsWith(logger_name, lr_name \o <<".">>)

\* C22: a LevelRangeFilter constructed with a non-empty name lets through only
\* records of loggers whose name equals that name or starts with it followed by a
\* dot; records of other loggers are rejected even when their level is in range.
C22_NameRestriction ==
    (lr_pc = "returned" /\ lr_name # <<>> /\ ~ NameMatches) => lr_result = <<FALSE>>


(***************************************************************************)
(* setup_venv                                                              *)
(***************************************************************************)

\* the values of platform.system().lower() drawn: linux, darwin, windows, freebsd
Platforms ==
    { <<"l", "i", "n", "u", "x">>, <<"d", "a", "r", "w", "i", "n">>,
      <<"w", "i", "n", "d", "o", "w", "s">>, <<"f", "r", "e", "e", "b", "s", "d">> }

\* "windows" in SYS_PLATFORM, or "darwin" in SYS_PLATFORM or "linux" in SYS_PLATFORM
Supported ==
    \/ Contains(SYS_PLATFORM, <<"w", "i", "n", "d", "o", "w", "s">>)
    \/ Contains(SYS_PLATFORM, <<"d", "a", "r", "w", "i", "n">>)
    \/ Contains(SYS_PLATFORM, <<"l", "i", "n", "u", "x">>)

\* is_in_virtualenv looking at base_prefix only
is_in_virtualenvBaseOnly ==
    IF has_base_prefix THEN prefix_differs ELSE FALSE

is_in_virtualenv ==
    LET base_prefix_differs == IF has_base_prefix THEN prefix_differs ELSE FALSE
    IN  base_prefix_differs \/ has_real_prefix

\* the module-level code: skip when already in an environment, else activate
ImportSetupVenv ==
    /\ import_pc = "none"
    /\ IF is_in_virtualenv
       THEN /\ import_pc' = "imported"
            /\ UNCHANGED calls
       ELSE /\ import_pc' = "activate"
            /\ calls' = calls + 1
    /\ UNCHANGED <<SYS_PLATFORM, bin_is_dir, python_executables, activate_this_is_file,
                   run_path_ok, lib_is_dir, version_str_ok, site_is_dir, has_base_prefix,
                   prefix_differs, has_real_prefix, method, attempts, activated,
                   exit_status>>
    /\ UNCHANGED <<call, argv, parked, adapter, level_filter>>

\* activate_virtualenv up to its loop: the platform, the bin directory, the executables
ActivatePreconditions ==
    /\ import_pc = "activate"
    /\ IF ~ Supported \/ ~ bin_is_dir \/ ~ python_executables
       THEN /\ activated' = <<FALSE>>
            /\ import_pc' = "returned"
            /\ UNCHANGED method
       ELSE /\ method' = 1
            /\ import_pc' = "methods"
            /\ UNCHANGED activated
    /\ UNCHANGED <<SYS_PLATFORM, bin_is_dir, python_executables, activate_this_is_file,
                   run_path_ok, lib_is_dir, version_str_ok, site_is_dir, has_base_prefix,
                   prefix_differs, has_real_prefix, attempts, calls, exit_status>>
    /\ UNCHANGED <<call, argv, parked, adapter, level_filter>>

\* methods with the manual activation put first
methodsManualFirst == <<"manually", "activate_this">>

\* the list of activation methods, in the order they are tried
methods == <<"activate_this", "manually">>

\* activate_via_activate_this: the script is a file and running it raises nothing
activate_via_activate_this == activate_this_is_file /\ run_path_ok

\* activate_manually: the paths are valid, the version string is found, and the
\* site-packages directory exists
activate_manually == bin_is_dir /\ lib_is_dir /\ version_str_ok /\ site_is_dir

\* func()
Run(name) ==
    IF name = "activate_this" THEN activate_via_activate_this ELSE activate_manually

\* one turn of `for name, func in methods`, or the end of the loop
TryMethod ==
    /\ import_pc = "methods"
    /\ IF method > Len(methods)
       THEN /\ activated' = <<FALSE>>
            /\ import_pc' = "returned"
            /\ UNCHANGED <<method, attempts, has_real_prefix, prefix_differs>>
       ELSE /\ attempts' = Append(attempts, methods[method])
            /\ IF Run(methods[method])
               THEN /\ activated' = <<TRUE>>
                    /\ import_pc' = "returned"
                    /\ has_real_prefix' = (has_real_prefix \/ methods[method] = "manually")
                    /\ prefix_differs' = (prefix_differs \/ methods[method] = "manually")
                    /\ UNCHANGED method
               ELSE /\ method' = method + 1
                    /\ UNCHANGED <<activated, import_pc, has_real_prefix, prefix_differs>>
    /\ UNCHANGED <<SYS_PLATFORM, bin_is_dir, python_executables, activate_this_is_file,
                   run_path_ok, lib_is_dir, version_str_ok, site_is_dir, has_base_prefix,
                   calls, exit_status>>
    /\ UNCHANGED <<call, argv, parked, adapter, level_filter>>

\* the module-level code after activate_virtualenv returned: go on, or sys.exit(1)
ImportFinish ==
    /\ import_pc = "returned"
    /\ IF activated = <<TRUE>>
       THEN /\ import_pc' = "imported"
            /\ UNCHANGED exit_status
       ELSE /\ exit_status' = <<1>>
            /\ import_pc' = "exited"
    /\ UNCHANGED <<SYS_PLATFORM, bin_is_dir, python_executables, activate_this_is_file,
                   run_path_ok, lib_is_dir, version_str_ok, site_is_dir, has_base_prefix,
                   prefix_differs, has_real_prefix, method, attempts, activated, calls>>
    /\ UNCHANGED <<call, argv, parked, adapter, level_filter>>

InitVenv ==
    /\ stack = <<>>
    /\ argv = <<>>
    /\ CallIdle
    /\ parked = NoThread
    /\ exclude_patterns = ArgNone
    /\ override_exclude_patterns = ArgNone
    /\ FilterAbsent
    /\ LevelFilterAbsent
    /\ SYS_PLATFORM \in Platforms
    /\ bin_is_dir \in BOOLEAN
    /\ python_executables \in {b \in BOOLEAN : b => bin_is_dir}
    /\ activate_this_is_file \in {b \in BOOLEAN : b => bin_is_dir}
    /\ run_path_ok \in {b \in BOOLEAN : b => activate_this_is_file}
    /\ lib_is_dir \in BOOLEAN
    /\ version_str_ok \in {b \in BOOLEAN : b => python_executables}
    /\ site_is_dir \in {b \in BOOLEAN : b => lib_is_dir}
    /\ has_base_prefix \in BOOLEAN
    /\ prefix_differs \in {b \in BOOLEAN : b => has_base_prefix}
    /\ has_real_prefix \in BOOLEAN
    /\ import_pc = "none"
    /\ method = 0
    /\ attempts = <<>>
    /\ activated = <<>>
    /\ calls = 0
    /\ exit_status = <<>>

NextVenv ==
    \/ ImportSetupVenv
    \/ ActivatePreconditions
    \/ TryMethod
    \/ ImportFinish

SpecVenv == InitVenv /\ [][NextVenv]_vars

\* the platform is supported, the bin directory exists and holds a Python executable
Preconditions == Supported /\ bin_is_dir /\ python_executables

\* C23: activate_virtualenv tries activate_this.py first and the manual activation
\* second, stops at the first that succeeds, tries the manual one only after
\* activate_this.py failed, and returns True iff one succeeded; with a
\* precondition missing it tries none and returns False.
C23_ActivationOrder ==
    /\ attempts \in {<<>>, <<"activate_this">>, <<"activate_this", "manually">>}
    /\ Len(attempts) = 2 => ~ activate_via_activate_this
    /\ activated # <<>> =>
           /\ ~ Preconditions => attempts = <<>>
           /\ Preconditions =>
                  attempts = IF activate_via_activate_this
                             THEN <<"activate_this">>
                             ELSE <<"activate_this", "manually">>
           /\ activated = <<Preconditions
                               /\ (activate_via_activate_this \/ activate_manually)>>
           /\ activated = <<attempts # <<>> /\ Run(attempts[Len(attempts)])>>

\* activate_this.py failed, then the manual activation succeeded
C23_Witness ==
    /\ activated = <<TRUE>>
    /\ attempts = <<"activate_this", "manually">>
    /\ activate_this_is_file
    /\ ~ run_path_ok

\* sys says the process runs inside a virtual environment
InVirtualenv == (has_base_prefix /\ prefix_differs) \/ has_real_prefix

\* C24: on import, a process already inside a virtual environment tries no
\* activation method and goes on; otherwise activate_virtualenv is called exactly
\* once, and the process exits with status 1 iff no activation method succeeded.
C24_ImportWorkflow ==
    /\ [](/\ calls <= 1
          /\ calls = 0 => attempts = <<>> /\ activated = <<>> /\ exit_status = <<>>
          /\ exit_status \in {<<>>, <<1>>}
          /\ exit_status = <<1>> <=> import_pc = "exited"
          /\ import_pc \in {"imported", "exited"} =>
                 (exit_status = <<1>> <=>
                      /\ calls = 1
                      /\ \A i \in 1..Len(attempts) : ~ Run(attempts[i])))
    /\ [][import_pc = "none" /\ import_pc' # "none" =>
              IF InVirtualenv
              THEN import_pc' = "imported" /\ calls' = 0
              ELSE import_pc' = "activate" /\ calls' = 1]_vars

\* outside a virtual environment both methods failed and the process exited with 1
C24_Witness ==
    /\ import_pc = "exited"
    /\ exit_status = <<1>>
    /\ calls = 1
    /\ attempts = <<"activate_this", "manually">>


\* the filter was built from its defaults alone
FilterDefaults == exclude_patterns = ArgNone /\ override_exclude_patterns = ArgNone

\* C25: a CallerInfoFilter constructed with neither extra nor override patterns
\* excludes exactly the paths that resolve_caller_filename excludes with its
\* default pattern set, on the same stack with the same skip.
C25_AdapterDefaultsMatchResolver ==
    (Returned /\ FilterDefaults) =>
        \A k \in PostSkip :
            ~ Unreadable(k) =>
                (should_exclude(PathAt(k), self_exclude_patterns)
                     <=> should_exclude(PathAt(k), default_patterns))

\* C28: the value filter() writes on the record is always a string and never
\* MISSING, whatever the stack, the offset, the exclusion set and fallback_to_argv.
C28_AdapterWritesString ==
    /\ (filter_pc = "resolving" /\ Done) => result # MISSING /\ result.tag = "str"
    /\ Returned => /\ record[self_attribute_name] # MISSING
                   /\ record[self_attribute_name].tag = "str"

\* with fallback_to_argv off and no frame accepted, the resolver's own file name
\* was written
C28_Witness ==
    /\ Returned
    /\ ~ self_fallback_to_argv
    /\ accepted = NoFrame
    /\ record[self_attribute_name] = Present(<<"c", "r", ".", "p", "y">>)


(***************************************************************************)
(* The seen-file set and the depth limit                                   *)
(***************************************************************************)

\* the walk of a resolver that keeps no seen-file set: every frame is tested
RECURSIVE ReferenceWalk(_, _)
ReferenceWalk(f, n) ==
    IF LoopContinues(f, n, max_stack_depth)
    THEN IF ~ should_exclude(FilenameOf(f), pattern_set)
         THEN Present(Rendered(FilenameOf(f), return_basename))
         ELSE ReferenceWalk(f_back(f), n + 1)
    ELSE FileFallback(fallback_to_argv, fallback_to_current, return_basename)

\* what that resolver returns for the call's stack and arguments
ReferenceResult ==
    IF stack_start > Len(stack)
    THEN FileSkipFallback(fallback_to_argv, fallback_to_current, return_basename)
    ELSE ReferenceWalk(IF stack_start < Len(stack) THEN stack_start + 1 ELSE NoFrame, 0)

\* C26: the seen-file set never changes the outcome: resolve_caller_filename
\* returns what a resolver returns that tests every post-skip frame for exclusion
\* and keeps no seen-file set.
C26_SeenSetNeutral ==
    (Done /\ kind = "file") => result = ReferenceResult

\* the second of two frames of one excluded file was passed over untested, and the
\* fallback chain gave the result
C26_Witness ==
    /\ Done
    /\ kind = "file"
    /\ stack = <<"self", "foobar", "foobar">>
    /\ stack_start = 1
    /\ max_stack_depth = None
    /\ evaluated = <<2>>
    /\ inspected = 2
    /\ result = ReferenceResult

\* the largest number of repeated frames drawn
MaxRepeat == 3

\* call chains with one excluded file repeated d times below the code that logged
RepeatStacks ==
    {<<"self">> \o [i \in 1..d |-> x] \o <<"app">> : d \in 1..MaxRepeat,
                                                    x \in {"foobar", "foo.bar"}}

InitRepeat ==
    /\ stack \in RepeatStacks
    /\ argv \in Argvs
    /\ CallIdle
    /\ parked = NoThread
    /\ exclude_patterns = ArgNone
    /\ override_exclude_patterns = ArgNone
    /\ FilterAbsent
    /\ LevelFilterAbsent
    /\ NotImported

\* resolve_caller_filename with a depth limit up to past the repeated frames
DepthFilenameCall ==
    \E start \in 0..1, depth \in {None} \cup {<<n>> : n \in 0..MaxRepeat + 1},
       patterns \in {ArgNone, ArgStr(<<"l", "i", "b">>)}, to_argv \in BOOLEAN :
        /\ ResolveCallerFilename(start, depth, patterns, TRUE, to_argv, TRUE)
        /\ UNCHANGED <<parked, adapter, level_filter, venv>>

NextRepeat ==
    \/ DepthFilenameCall
    \/ FileSkip
    \/ FileWalk

SpecRepeat == InitRepeat /\ [][NextRepeat]_vars

\* the first d post-skip frames are frames of one internal file
RepeatedExcluded(d) ==
    /\ d >= 1
    /\ stack_start + d <= Len(stack)
    /\ InternalPath(PathAt(stack_start + 1))
    /\ \A j \in 1..d : PathAt(stack_start + j) = PathAt(stack_start + 1)

\* C27: every post-skip frame the walk passes counts toward max_stack_depth,
\* tested for exclusion or passed over as seen; so with an excluded path repeated
\* d times before an acceptable frame and max_stack_depth <= d, the fallback value
\* is returned.
C27_SeenFramesCount ==
    (Done /\ kind = "file") =>
        /\ inspected = Cardinality({k \in PostSkip : /\ WithinDepth(k)
                                                     /\ (accepted = NoFrame \/ k < accepted)})
        /\ \A d \in 1..Len(stack) :
               (RepeatedExcluded(d) /\ max_stack_depth # None /\ max_stack_depth[1] <= d)
                   => accepted = NoFrame /\ result = FileChain

\* two frames of "/VENV/t.py" below "/a/m.py" with max_stack_depth = 2: the second
\* was passed over as seen, the limit was reached, and the fallback was returned
C27_Witness ==
    /\ Done
    /\ kind = "file"
    /\ stack = <<"self", "foobar", "foobar", "app">>
    /\ stack_start = 1
    /\ max_stack_depth = <<2>>
    /\ evaluated = <<2>>
    /\ inspected = 2
    /\ accepted = NoFrame
    /\ result = FileChain

====
